---- MODULE Spec2Model ----
(***************************************************************************)
(* Model of two subsystems of box-node-sdk:                                *)
(*   - AppAuthSession  (src/src/sessions/app-auth-session.ts): the access  *)
(*     token lifecycle of one app-auth session, with its optional          *)
(*     TokenStore;                                                         *)
(*   - EventStream     (src/unnamed/part_001): the long-poll event feed.   *)
(* Every asynchronous continuation of the source (a promise callback, a    *)
(* timer callback) is one action.  The session is explored by SpecSession  *)
(* and the feed by SpecFeed; each leaves the other's variables alone.      *)
(***************************************************************************)
EXTENDS Integers, Sequences, FiniteSets, Bags, TLC

VARIABLES
    \* ---- AppAuthSession ----
    config,          \* _config and whether a _tokenStore was supplied
    now,             \* the clock read by isAccessTokenValid (Date.now())
    tokenInfo,       \* _tokenInfo (NoToken = null)
    refreshPromise,  \* _refreshPromise: 0 = null, else the number of the grant
    promises,        \* one record per refresh promise ever created
    storeTok,        \* what the TokenStore currently holds
    reads,           \* bag of getAccessToken calls waiting on readAsync()
    clears,          \* bag of handleExpiredTokensError calls waiting on clearAsync()
    revoked,         \* access tokens handed to the grantor's revokeTokens
    opsMade,         \* number of calls of the public operations so far
    last,            \* what the most recent call or store callback did
    \* ---- EventStream ----
    options,         \* _options
    destroyed,       \* Readable's destroyed flag
    streamPosition,  \* _streamPosition
    longPollInfo,    \* _longPollInfo (NoInfo = undefined)
    longPollRetries, \* _longPollRetries
    dedupHash,       \* the keys of _dedupHash
    rateLimiter,     \* ticks until the _rateLimiter promise resolves
    retryTimer,      \* _retryTimer: "undefined" or "set"
    timers,          \* bag of pending setTimeout timers
    pending,         \* bag of requests and waits in flight
    reading,         \* Readable: _read() was called and nothing pushed since
    flowing,         \* Readable's flowing state: "null", "paused" or "flowing"
    closes,          \* 'close' notifications scheduled so far
    sinceFetch,      \* ticks since the last event-fetch response (capped)
    step             \* what the most recent callback of the stream did

sessVars == <<config, now, tokenInfo, refreshPromise, promises, storeTok,
              reads, clears, revoked, opsMade, last>>

feedVars == <<options, destroyed, streamPosition, longPollInfo, longPollRetries,
              dedupHash, rateLimiter, retryTimer, timers, pending, reading,
              flowing, closes, sinceFetch, step>>

vars == <<config, now, tokenInfo, refreshPromise, promises, storeTok,
          reads, clears, revoked, opsMade, last,
          options, destroyed, streamPosition, longPollInfo, longPollRetries,
          dedupHash, rateLimiter, retryTimer, timers, pending, reading,
          flowing, closes, sinceFetch, step>>

(***************************************************************************)
(* Bounds of the exploration.                                              *)
(***************************************************************************)
MaxTime == 1
\* calls of the session's public operations, all kinds together
MaxOps == 3
MaxGrants == 2
\* longest entries list of an event-fetch response
MaxEntries == 2

(***************************************************************************)
(* Values.                                                                 *)
(***************************************************************************)
Tok(a, e) == [accessToken |-> a, expiresAt |-> e]
\* null / undefined token info; accessToken 0 stands for undefined
NoToken == Tok(0, 0)
\* (expiredBufferMS, staleBufferMS) pairs, in clock ticks
BufferPairs == {<<0, 1>>, <<1, 0>>}
\* lifetimes of the tokens the grantor hands out, in clock ticks
TokenTTLs == {1, 2}

GrantError == "grantError"
StoreError == "storeError"
ExpiredErrors == {"expiredTokensError"}

Max(a, b) == IF a >= b THEN a ELSE b

\* event ids the API may return
EventIds == {1, 2, 3}
\* next_stream_position values the API may return; 0 stands for a missing one
Positions == {1, 2}
\* long-poll coordinates the API may return
Infos == {[max_retries |-> 0, url |-> 1], [max_retries |-> 1, url |-> 2]}
\* _longPollInfo before the first discovery
NoInfo == [max_retries |-> 0, url |-> 0]
\* the options a stream may be constructed with, in clock ticks
OptionSets == {[retryDelay |-> 1, deduplicationFilterSize |-> 3, fetchInterval |-> 2],
               [retryDelay |-> 2, deduplicationFilterSize |-> 2, fetchInterval |-> 1],
               [retryDelay |-> 1, deduplicationFilterSize |-> 1, fetchInterval |-> 1]}

Range(f) == {f[i] : i \in DOMAIN f}
SeqsUpTo(S, n) == UNION {[1..k -> S] : k \in 0..n}

(***************************************************************************)
(* EventStream: state after construction.                                  *)
(***************************************************************************)
FeedConstructed(opts) ==
    /\ options = opts
    /\ destroyed = FALSE
    /\ streamPosition = 0
    /\ longPollInfo = NoInfo
    /\ longPollRetries = 0
    /\ dedupHash = {}
    /\ rateLimiter = 0
    /\ retryTimer = "undefined"
    /\ timers = EmptyBag
    /\ pending = EmptyBag
    /\ reading = FALSE
    /\ flowing = "null"
    /\ closes = 0
    /\ sinceFetch = opts.fetchInterval
    /\ step = [kind |-> "none"]

FeedInit == \E opts \in OptionSets : FeedConstructed(opts)

FeedIdle == FeedConstructed(CHOOSE opts \in OptionSets : TRUE)

(***************************************************************************)
(* AppAuthSession: pure parts.                                             *)
(***************************************************************************)

\* TokenManager.isAccessTokenValid(tokenInfo, bufferMS) at clock value t
IsAccessTokenValid(ti, bufferMS, t) ==
    /\ ti # NoToken
    /\ t < ti.expiresAt - bufferMS

ExpirationBufferExpiredOnly(cfg) == cfg.expiredBufferMS

\* getAccessToken: var expirationBuffer = Math.max(expiredBufferMS, staleBufferMS)
ExpirationBuffer(cfg) == Max(cfg.expiredBufferMS, cfg.staleBufferMS)

StartsRefreshAlways(rp) == TRUE

\* _refreshAppAuthAccessToken: if (!this._refreshPromise)
StartsRefresh(rp) == rp = 0

TokenInfoOnGrantDeferred(granted, cached) == cached

\* _refreshAppAuthAccessToken: this._tokenInfo = tokenInfo, before any store write
TokenInfoOnGrant(granted, cached) == granted

RefreshPromiseKept(rp) == rp

\* _refreshAppAuthAccessToken: .finally(() => { this._refreshPromise = null })
RefreshPromiseWhenSettled(rp) == 0

\* a refresh promise whose grant request has just been issued; granted is the
\* access token the grantor returned (0: none yet), waiters the number of
\* getAccessToken calls that returned this promise
NewPromise ==
    [state |-> "granting", token |-> NoToken, granted |-> 0, value |-> 0,
     error |-> "none", waiters |-> 0]

\* _refreshAppAuthAccessToken(options) as called from getAccessToken: the promise
\* returned (pid) and the promises existing afterwards (one more when
\* getTokensJWTGrant was called)
RefreshAppAuthAccessToken(rp, ps) ==
    LET pid == IF StartsRefresh(rp) THEN Len(ps) + 1 ELSE rp
        all == IF StartsRefresh(rp) THEN Append(ps, NewPromise) ELSE ps
    IN [pid |-> pid,
        promises |-> [all EXCEPT ![pid].waiters = all[pid].waiters + 1]]

\* the value the refresh promise resolves to: tokenInfo.accessToken of the
\* grant's own result (the closure variable, not this._tokenInfo)
ResolvedValue(granted, cached) == granted.accessToken

\* revokeTokens: var tokenInfo = this._tokenInfo || {}, accessToken = tokenInfo.accessToken
RevokeArg(ti) == IF ti = NoToken THEN 0 ELSE ti.accessToken

\* errors.unwrapAndThrow(e): throws the error the store operation reported
UnwrapAndThrow(e) == e

ExpiredOutcomeOriginal(cleared, err) == [pc |-> "rejected", out |-> err]

\* handleExpiredTokensError with a store: clearAsync().catch(unwrapAndThrow).then(throw err)
ExpiredOutcome(cleared, err) ==
    IF cleared
    THEN [pc |-> "rejected", out |-> err]
    ELSE [pc |-> "rejected", out |-> UnwrapAndThrow(StoreError)]

\* handleExpiredTokensError without a store: Promise.resolve(err)
ExpiredOutcomeNoStore(err) == [pc |-> "resolved", out |-> err]

\* the refresh promises not yet settled
InFlight == {p \in 1..Len(promises) : promises[p].state \in {"granting", "writing"}}

\* what a call or callback saw when it started
Seen ==
    [tok |-> tokenInfo, ref |-> refreshPromise, t |-> now,
     grants |-> Len(promises), inflight |-> InFlight]

(***************************************************************************)
(* AppAuthSession: state after construction.                               *)
(***************************************************************************)
StoredTokens == {NoToken, Tok(9, 2)}

Configs ==
    {[tokenStore |-> s, expiredBufferMS |-> b[1], staleBufferMS |-> b[2]] :
         s \in BOOLEAN, b \in BufferPairs}

SessionConstructed(cfg, stored) ==
    /\ config = cfg
    /\ now = 0
    /\ tokenInfo = NoToken
    /\ refreshPromise = 0
    /\ promises = <<>>
    /\ storeTok = stored
    /\ reads = EmptyBag
    /\ clears = EmptyBag
    /\ revoked = {}
    /\ opsMade = 0
    /\ last = [op |-> "none"]

SessionInit ==
    \E cfg \in Configs :
        \E stored \in (IF cfg.tokenStore THEN StoredTokens ELSE {NoToken}) :
            SessionConstructed(cfg, stored)

SessionIdle ==
    SessionConstructed(CHOOSE cfg \in Configs : ~cfg.tokenStore, NoToken)

\* the session as constructed, beside a stream that is never read
InitSession == SessionInit /\ FeedIdle

(***************************************************************************)
(* AppAuthSession: operations and continuations.                           *)
(***************************************************************************)

\* getAccessToken(options), up to its return
GetAccessToken ==
    /\ opsMade < MaxOps
    /\ opsMade' = opsMade + 1
    /\ IF tokenInfo = NoToken /\ config.tokenStore
       THEN /\ reads' = reads (+) SetToBag({[pc |-> "reading", readTok |-> NoToken,
                                             refAt |-> refreshPromise,
                                             grantsAt |-> Len(promises),
                                             othersAt |-> reads # EmptyBag,
                                             revAt |-> revoked]})
            /\ last' = [op |-> "get", kind |-> "reading", pid |-> 0, val |-> 0,
                        seen |-> Seen, started |-> FALSE, revAt |-> revoked]
            /\ UNCHANGED <<tokenInfo, refreshPromise, promises>>
       ELSE IF tokenInfo = NoToken
               \/ ~IsAccessTokenValid(tokenInfo, ExpirationBuffer(config), now)
       THEN LET r == RefreshAppAuthAccessToken(refreshPromise, promises) IN
            /\ Len(r.promises) <= MaxGrants
            /\ promises' = r.promises
            /\ refreshPromise' = r.pid
            /\ last' = [op |-> "get", kind |-> "attached", pid |-> r.pid, val |-> 0,
                        seen |-> Seen, started |-> Len(r.promises) > Len(promises),
                        revAt |-> revoked]
            /\ UNCHANGED <<tokenInfo, reads>>
       ELSE /\ last' = [op |-> "get", kind |-> "returned", pid |-> 0,
                        val |-> tokenInfo.accessToken,
                        seen |-> Seen, started |-> FALSE, revAt |-> revoked]
            /\ UNCHANGED <<tokenInfo, refreshPromise, promises, reads>>
    /\ UNCHANGED <<config, now, storeTok, clears, revoked>>

\* the TokenStore serves the read of call r
StoreServeRead(r) ==
    /\ r.pc = "reading"
    /\ reads' = (reads (-) SetToBag({r}))
                    (+) SetToBag({[r EXCEPT !.pc = "served", !.readTok = storeTok]})
    /\ UNCHANGED <<config, now, tokenInfo, refreshPromise, promises, storeTok,
                   clears, revoked, opsMade, last>>

\* the TokenStore read of call r fails: the call rejects with the store error
StoreReadFail(r) ==
    /\ r.pc = "reading"
    /\ reads' = reads (-) SetToBag({r})
    /\ last' = [op |-> "readcb", kind |-> "failed", pid |-> 0, val |-> 0,
                err |-> StoreError, seen |-> Seen, started |-> FALSE, call |-> r]
    /\ UNCHANGED <<config, now, tokenInfo, refreshPromise, promises, storeTok,
                   clears, revoked, opsMade>>

\* getAccessToken: the callback of readAsync() of call r
ReadCallback(r) ==
    /\ r.pc = "served"
    /\ reads' = reads (-) SetToBag({r})
    /\ IF ~IsAccessTokenValid(r.readTok, ExpirationBuffer(config), now)
       THEN LET f == RefreshAppAuthAccessToken(refreshPromise, promises) IN
            /\ Len(f.promises) <= MaxGrants
            /\ promises' = f.promises
            /\ refreshPromise' = f.pid
            /\ last' = [op |-> "readcb", kind |-> "attached", pid |-> f.pid, val |-> 0,
                        err |-> "none", seen |-> Seen,
                        started |-> Len(f.promises) > Len(promises), call |-> r]
            /\ UNCHANGED tokenInfo
       ELSE /\ tokenInfo' = r.readTok
            /\ last' = [op |-> "readcb", kind |-> "returned", pid |-> 0,
                        val |-> r.readTok.accessToken,
                        err |-> "none", seen |-> Seen, started |-> FALSE, call |-> r]
            /\ UNCHANGED <<refreshPromise, promises>>
    /\ UNCHANGED <<config, now, storeTok, clears, revoked, opsMade>>

\* _refreshAppAuthAccessToken: getTokensJWTGrant of promise p resolves; the
\* .then callback runs, and without a store the .finally callback right after
GrantSucceed(p, ttl) ==
    /\ promises[p].state = "granting"
    /\ LET granted == Tok(p, now + ttl) IN
       /\ tokenInfo' = TokenInfoOnGrant(granted, tokenInfo)
       /\ IF config.tokenStore
          THEN /\ promises' = [promises EXCEPT ![p].state = "writing",
                                               ![p].token = granted,
                                               ![p].granted = granted.accessToken]
               /\ UNCHANGED refreshPromise
          ELSE /\ promises' = [promises EXCEPT
                                  ![p].state = "resolved",
                                  ![p].granted = granted.accessToken,
                                  ![p].value = ResolvedValue(granted, granted)]
               /\ refreshPromise' = RefreshPromiseWhenSettled(refreshPromise)
    /\ UNCHANGED <<config, now, storeTok, reads, clears, revoked, opsMade, last>>

\* getTokensJWTGrant of promise p rejects; the .finally callback runs
GrantFail(p) ==
    /\ promises[p].state = "granting"
    /\ promises' = [promises EXCEPT ![p].state = "rejected", ![p].error = GrantError]
    /\ refreshPromise' = RefreshPromiseWhenSettled(refreshPromise)
    /\ UNCHANGED <<config, now, tokenInfo, storeTok, reads, clears, revoked,
                   opsMade, last>>

\* writeAsync(tokenInfo) of promise p resolves; .then and .finally run
WriteSucceed(p) ==
    /\ promises[p].state = "writing"
    /\ storeTok' = promises[p].token
    /\ promises' = [promises EXCEPT
                       ![p].state = "resolved",
                       ![p].token = NoToken,
                       ![p].value = ResolvedValue(promises[p].token, tokenInfo)]
    /\ refreshPromise' = RefreshPromiseWhenSettled(refreshPromise)
    /\ UNCHANGED <<config, now, tokenInfo, reads, clears, revoked, opsMade, last>>

\* writeAsync(tokenInfo) of promise p rejects; .finally runs
WriteFail(p) ==
    /\ promises[p].state = "writing"
    /\ promises' = [promises EXCEPT ![p].state = "rejected", ![p].token = NoToken,
                                    ![p].error = StoreError]
    /\ refreshPromise' = RefreshPromiseWhenSettled(refreshPromise)
    /\ UNCHANGED <<config, now, tokenInfo, storeTok, reads, clears, revoked,
                   opsMade, last>>

\* revokeTokens(options), up to its return; the grantor's request is then in
\* flight, and its completion touches nothing of the session
RevokeTokens ==
    /\ opsMade < MaxOps
    /\ opsMade' = opsMade + 1
    /\ revoked' = revoked \cup ({RevokeArg(tokenInfo)} \ {0})
    /\ tokenInfo' = NoToken
    /\ last' = [op |-> "revoke", arg |-> RevokeArg(tokenInfo), seen |-> Seen,
                tokAfter |-> tokenInfo']
    /\ UNCHANGED <<config, now, refreshPromise, promises, storeTok, reads, clears>>

\* handleExpiredTokensError(err), up to its return
HandleExpiredTokensError(err) ==
    /\ opsMade < MaxOps
    /\ opsMade' = opsMade + 1
    /\ UNCHANGED <<tokenInfo, refreshPromise>>
    /\ IF ~config.tokenStore
       THEN /\ UNCHANGED clears
            /\ last' = [op |-> "handle", arg |-> err, seen |-> Seen,
                        clearCalls |-> BagCardinality(clears') - BagCardinality(clears),
                        tokAfter |-> tokenInfo',
                        refAfter |-> refreshPromise'] @@ ExpiredOutcomeNoStore(err)
       ELSE /\ clears' = clears (+) SetToBag({err})
            /\ last' = [op |-> "handle", arg |-> err, seen |-> Seen,
                        clearCalls |-> BagCardinality(clears') - BagCardinality(clears),
                        tokAfter |-> tokenInfo',
                        refAfter |-> refreshPromise', pc |-> "clearing", out |-> "none"]
    /\ UNCHANGED <<config, now, promises, storeTok, reads, revoked>>

\* clearAsync() of a handler called with err resolves: the handler rejects
ClearSucceed(err) ==
    /\ BagIn(err, clears)
    /\ UNCHANGED <<tokenInfo, refreshPromise>>
    /\ clears' = clears (-) SetToBag({err})
    /\ storeTok' = NoToken
    /\ last' = [op |-> "cleared", ok |-> TRUE, arg |-> err, seen |-> Seen,
                tokAfter |-> tokenInfo', refAfter |-> refreshPromise']
                   @@ ExpiredOutcome(TRUE, err)
    /\ UNCHANGED <<config, now, promises, reads, revoked, opsMade>>

\* clearAsync() of a handler called with err rejects: the store is left in
\* an unknown state
ClearFail(err) ==
    /\ BagIn(err, clears)
    /\ UNCHANGED <<tokenInfo, refreshPromise>>
    /\ clears' = clears (-) SetToBag({err})
    /\ storeTok' \in {storeTok, NoToken}
    /\ last' = [op |-> "cleared", ok |-> FALSE, arg |-> err, seen |-> Seen,
                tokAfter |-> tokenInfo', refAfter |-> refreshPromise']
                   @@ ExpiredOutcome(FALSE, err)
    /\ UNCHANGED <<config, now, promises, reads, revoked, opsMade>>

\* the clock advances
Tick ==
    /\ now < MaxTime
    /\ now' = now + 1
    /\ UNCHANGED <<config, tokenInfo, refreshPromise, promises, storeTok, reads,
                   clears, revoked, opsMade, last>>

\* the stream is left alone
FeedUnchanged == UNCHANGED feedVars

NextSession ==
    \/ GetAccessToken /\ FeedUnchanged
    \/ (\E r \in BagToSet(reads) : StoreServeRead(r)) /\ FeedUnchanged
    \/ (\E r \in BagToSet(reads) : StoreReadFail(r)) /\ FeedUnchanged
    \/ (\E r \in BagToSet(reads) : ReadCallback(r)) /\ FeedUnchanged
    \/ (\E p \in 1..Len(promises), ttl \in TokenTTLs : GrantSucceed(p, ttl)) /\ FeedUnchanged
    \/ (\E p \in 1..Len(promises) : GrantFail(p)) /\ FeedUnchanged
    \/ (\E p \in 1..Len(promises) : WriteSucceed(p)) /\ FeedUnchanged
    \/ (\E p \in 1..Len(promises) : WriteFail(p)) /\ FeedUnchanged
    \/ RevokeTokens /\ FeedUnchanged
    \/ (\E err \in ExpiredErrors : HandleExpiredTokensError(err)) /\ FeedUnchanged
    \/ (\E err \in ExpiredErrors : ClearSucceed(err)) /\ FeedUnchanged
    \/ (\E err \in ExpiredErrors : ClearFail(err)) /\ FeedUnchanged
    \/ Tick /\ FeedUnchanged

SpecSession == InitSession /\ [][NextSession]_vars

(***************************************************************************)
(* AppAuthSession: properties.                                             *)
(***************************************************************************)

\* the validity check as the specification states it:
\* now < expiresAt - max(expiredBufferMS, staleBufferMS)
PassesCheck(tok, t) ==
    /\ tok # NoToken
    /\ t < tok.expiresAt - (IF config.expiredBufferMS >= config.staleBufferMS
                            THEN config.expiredBufferMS
                            ELSE config.staleBufferMS)

\* C1: in a session without a TokenStore, a getAccessToken call made with the
\* in-memory token absent or invalid returns the refresh promise: the one
\* already in flight when there is one (and then no grant is requested), a
\* new one otherwise; at most one grant is in flight, and a resolved refresh
\* promise carries the access token its own grant returned, so the N calls
\* made during one grant cause one getTokensJWTGrant call and share its token.
C1_Coalescing ==
    ~config.tokenStore =>
        /\ Cardinality(InFlight) <= 1
        /\ \A p \in 1..Len(promises) :
               promises[p].state = "resolved" =>
                   promises[p].granted # 0 /\ promises[p].value = promises[p].granted
        /\ (last.op = "get" /\ ~PassesCheck(last.seen.tok, last.seen.t)) =>
               /\ last.kind = "attached"
               /\ IF last.seen.inflight # {}
                  THEN ~last.started /\ last.pid \in last.seen.inflight
                  ELSE last.started /\ last.pid = last.seen.grants + 1

\* C1 witness: two calls were handed the same refresh promise, which resolved
C1_Witness ==
    /\ ~config.tokenStore
    /\ \E p \in 1..Len(promises) :
           promises[p].state = "resolved" /\ promises[p].waiters >= 2

\* C2 (as claimed): a getAccessToken call invoked while a refresh was active,
\* or while another call's store read was pending and a grant has been made
\* since, never requests a grant of its own; and at most one refresh is
\* writing to the TokenStore.
C2_NoSecondGrant ==
    /\ Cardinality({p \in 1..Len(promises) : promises[p].state = "writing"}) <= 1
    /\ (last.op = "get" /\ last.started) => last.seen.inflight = {}
    /\ (last.op = "readcb" /\ last.started) =>
           /\ last.call.refAt = 0
           /\ last.call.othersAt => last.call.grantsAt = last.seen.grants

\* C3 (as claimed): revokeTokens leaves the in-memory token absent and hands
\* the grantor the access token held at the call, and no getAccessToken call
\* invoked after it returns an access token that had been revoked by then.
C3_RevokeThenRefresh ==
    /\ last.op = "revoke" =>
           last.tokAfter = NoToken /\ last.arg = last.seen.tok.accessToken
    /\ (last.op = "get" /\ last.kind = "returned") => last.val \notin last.revAt
    /\ (last.op = "readcb" /\ last.kind = "returned") => last.val \notin last.call.revAt

Req(kind, url, pos, rem) == [kind |-> kind, url |-> url, pos |-> pos, rem |-> rem]

FeedState ==
    [pending |-> pending, retries |-> longPollRetries, timers |-> timers,
     retryTimer |-> retryTimer]

\* getLongPollInfo(): issues the discovery request unless destroyed
GetLongPollInfoCall(st) ==
    IF destroyed
    THEN st
    ELSE [st EXCEPT !.pending = @ (+) SetToBag({Req("discover", 0, 0, 0)})]

OverMaxRetriesAtLimit(retries, info) == retries >= info.max_retries

\* doLongPoll: if (this._longPollRetries > this._longPollInfo.max_retries)
OverMaxRetries(retries, info) == retries > info.max_retries

\* doLongPoll(): re-discovers when over the retry limit, else counts the
\* attempt and issues the long-poll request with the current stream position
DoLongPollCall(st, info, pos) ==
    IF destroyed
    THEN st
    ELSE IF OverMaxRetries(st.retries, info)
    THEN GetLongPollInfoCall(st)
    ELSE [st EXCEPT !.retries = @ + 1,
                    !.pending = @ (+) SetToBag({Req("longpoll", info.url, pos, 0)})]

FetchWaitNone(rl) == 0

\* fetchEvents: this._rateLimiter.then(...) waits for the promise held now
FetchWait(rl) == rl

\* fetchEvents(), up to its return: eventParams are built from the current
\* stream position, and the request waits for the rate limiter
FetchEventsCall(st, pos) ==
    IF destroyed
    THEN st
    ELSE [st EXCEPT !.pending = @ (+) SetToBag({Req("ratewait", 0, pos, FetchWait(rateLimiter))})]

\* retryPollInfo: setTimeout(..., this._options.retryDelay)
RetryDelay(opts) == opts.retryDelay

\* retryPollInfo(): schedules a timer unless destroyed; _retryTimer is
\* overwritten, so an earlier pending timer loses its handle.  A timer is
\* [rem: ticks left, handle: _retryTimer refers to it, why: what scheduled it]
RetryPollInfoCall(st, why) ==
    IF ~destroyed
    THEN [st EXCEPT
             !.timers = BagOfAll(LAMBDA t : [t EXCEPT !.handle = FALSE], @)
                            (+) SetToBag({[rem |-> RetryDelay(options), handle |-> TRUE,
                                           why |-> why]}),
             !.retryTimer = "set"]
    ELSE st

RetriesDiscoveryAlways(authExpired) == TRUE

\* getLongPollInfo's catch: if (!err.authExpired) retry
RetriesDiscovery(authExpired) == ~authExpired

ResponseUsableEntriesOnly(resp) == resp.hasEntries

\* fetchEvents: !(!events.entries || !events.next_stream_position)
ResponseUsable(resp) == resp.hasEntries /\ resp.next # 0

NewEventsUnfiltered(entries, hash) == entries

\* fetchEvents: events.entries.filter(event => !this._dedupHash[event.event_id])
NewEvents(entries, hash) == SelectSeq(entries, LAMBDA e : e \notin hash)

\* cleanupDedupFilter(latestEvents): drops every key not among latestEvents
CleanupDedupFilter(hash, latestEvents) == {id \in hash : id \in Range(latestEvents)}

\* fetchEvents: the hash after the pushes and the size check
DedupAfterPush(hash, newEvents, entries, opts) ==
    LET marked == hash \cup Range(newEvents) IN
    IF Cardinality(marked) >= opts.deduplicationFilterSize
    THEN CleanupDedupFilter(marked, entries)
    ELSE marked

\* fetchEvents: this._rateLimiter = Promise.delay(this._options.fetchInterval)
RateLimiterAfterFetch(opts, rl) == opts.fetchInterval

ReadsDuringPushUnpaused(fl, n) == n

\* Readable: a push() into a flowing stream calls _read() again from inside
\* the push; a paused stream only buffers.  The number of such _read() calls
\* for n pushes made with flowing state fl
ReadsDuringPush(fl, n) == IF fl = "flowing" THEN n ELSE 0

\* the kind of request a callback issued ("none" when it issued none)
Issued(before, after) ==
    LET new == BagToSet(after (-) before) IN
    IF new = {} THEN "none" ELSE (CHOOSE q \in new : TRUE).kind

\* what a callback did: the error notifications it emitted, the timers it
\* scheduled (and the delay of the one _retryTimer now refers to), the
\* request it issued; and the cursor, the dedup keys, the long-poll info and
\* the attempt count it found
Did(kind, st0, st1, errs) ==
    LET scheduled == BagCardinality(st1.timers) - BagCardinality(st0.timers) IN
    [kind |-> kind, wasDestroyed |-> destroyed, errors |-> errs,
     scheduled |-> scheduled,
     delay |-> IF scheduled > 0
               THEN (CHOOSE t \in BagToSet(st1.timers) : t.handle).rem
               ELSE 0,
     issued |-> Issued(st0.pending, st1.pending),
     posBefore |-> streamPosition, hashBefore |-> dedupHash,
     infoBefore |-> longPollInfo, retriesBefore |-> longPollRetries]

Apply(st) ==
    /\ pending' = st.pending
    /\ longPollRetries' = st.retries
    /\ timers' = st.timers
    /\ retryTimer' = st.retryTimer

Without(q) == [FeedState EXCEPT !.pending = pending (-) SetToBag({q})]

(***************************************************************************)
(* EventStream: operations and continuations.                              *)
(***************************************************************************)

\* a pull by the consumer: Readable calls _read() unless it has called it
\* already and nothing was pushed since; _read() calls getLongPollInfo()
Read ==
    /\ reading' = TRUE
    /\ LET st == IF reading THEN FeedState ELSE GetLongPollInfoCall(FeedState) IN
       /\ Apply(st)
       /\ step' = Did("read", FeedState, st, 0) @@ [called |-> ~reading]
    /\ UNCHANGED <<options, destroyed, streamPosition, longPollInfo, dedupHash,
                   rateLimiter, flowing, closes, sinceFetch>>

RetriesOnDiscoveryKept(retries) == retries

\* getLongPollInfo: this._longPollRetries = 0
RetriesOnDiscovery(retries) == 0

\* getLongPollInfo: the discovery request q resolves with info; cause is
\* what the callback before this one was
DiscoverSucceed(q, info) ==
    /\ q.kind = "discover"
    /\ longPollInfo' = info
    /\ LET st0 == [Without(q) EXCEPT !.retries = RetriesOnDiscovery(@)]
           st == DoLongPollCall(st0, info, streamPosition)
       IN /\ Apply(st)
          /\ step' = Did("discovered", st0, st, 0)
                         @@ [info |-> info,
                             cause |-> IF step.kind = "polled" THEN step.msg
                                       ELSE step.kind]
    /\ UNCHANGED <<options, destroyed, streamPosition, dedupHash, rateLimiter,
                   reading, flowing, closes, sinceFetch>>

\* getLongPollInfo: the discovery request q rejects
DiscoverFail(q, authExpired) ==
    /\ q.kind = "discover"
    /\ LET st0 == Without(q)
           st == IF RetriesDiscovery(authExpired) THEN RetryPollInfoCall(st0, "discoverFailed") ELSE st0
       IN /\ Apply(st)
          /\ step' = Did("discoverFailed", st0, st, 1) @@ [authExpired |-> authExpired]
    /\ UNCHANGED <<options, destroyed, streamPosition, longPollInfo, dedupHash,
                   rateLimiter, reading, flowing, closes, sinceFetch>>

\* doLongPoll: the long-poll request q resolves with data.message = msg
LongPollRespond(q, msg) ==
    /\ q.kind = "longpoll"
    /\ LET st0 == Without(q)
           st == IF destroyed THEN st0
                 ELSE IF msg = "reconnect" THEN GetLongPollInfoCall(st0)
                 ELSE IF msg # "new_change"
                      THEN DoLongPollCall(st0, longPollInfo, streamPosition)
                 ELSE FetchEventsCall(st0, streamPosition)
       IN /\ Apply(st)
          /\ step' = Did("polled", st0, st, 0) @@ [msg |-> msg]
    /\ UNCHANGED <<options, destroyed, streamPosition, longPollInfo, dedupHash,
                   rateLimiter, reading, flowing, closes, sinceFetch>>

\* doLongPoll: the long-poll request q rejects
LongPollFail(q) ==
    /\ q.kind = "longpoll"
    /\ LET st0 == Without(q)
           st == RetryPollInfoCall(st0, "pollFailed")
       IN /\ Apply(st)
          /\ step' = Did("pollFailed", st0, st, 0)
    /\ UNCHANGED <<options, destroyed, streamPosition, longPollInfo, dedupHash,
                   rateLimiter, reading, flowing, closes, sinceFetch>>

\* fetchEvents: the rate limiter awaited by q has resolved; the events
\* request is issued with the parameters built when fetchEvents was called
RateLimiterResolved(q) ==
    /\ q.kind = "ratewait"
    /\ q.rem = 0
    /\ LET st0 == Without(q)
           st == [st0 EXCEPT !.pending = @ (+) SetToBag({Req("fetch", 0, q.pos, 0)})]
       IN /\ Apply(st)
          /\ step' = Did("fetchIssued", st0, st, 0) @@ [since |-> sinceFetch]
    /\ UNCHANGED <<options, destroyed, streamPosition, longPollInfo, dedupHash,
                   rateLimiter, reading, flowing, closes, sinceFetch>>

\* fetchEvents: the events request q resolves with resp
FetchSucceed(q, resp) ==
    /\ q.kind = "fetch"
    /\ rateLimiter' = RateLimiterAfterFetch(options, rateLimiter)
    /\ sinceFetch' = 0
    /\ LET st0 == Without(q)
           newEvents == NewEvents(resp.entries, dedupHash)
           seen == [resp |-> resp]
       IN IF ~ResponseUsable(resp)
          THEN LET st == DoLongPollCall(st0, longPollInfo, streamPosition) IN
               /\ Apply(st)
               /\ step' = Did("fetched", st0, st, 0) @@ seen @@ [pushed |-> <<>>]
               /\ UNCHANGED <<streamPosition, dedupHash, reading, flowing>>
          ELSE IF newEvents = <<>>
          THEN LET st == DoLongPollCall(st0, longPollInfo, resp.next) IN
               /\ streamPosition' = resp.next
               /\ Apply(st)
               /\ step' = Did("fetched", st0, st, 0) @@ seen @@ [pushed |-> <<>>]
               /\ UNCHANGED <<dedupHash, reading, flowing>>
          ELSE LET wasPaused == flowing = "paused"
                   reentrant == ReadsDuringPush("paused", Len(newEvents))
                   st == IF reentrant > 0 /\ ~destroyed
                         THEN [st0 EXCEPT !.pending =
                                  @ (+) [x \in {Req("discover", 0, 0, 0)} |-> reentrant]]
                         ELSE st0
               IN /\ streamPosition' = resp.next
                  /\ dedupHash' = DedupAfterPush(dedupHash, newEvents, resp.entries, options)
                  /\ flowing' = IF wasPaused THEN "paused" ELSE "flowing"
                  /\ reading' = FALSE
                  /\ Apply(st)
                  /\ step' = Did("fetched", st0, st, 0) @@ seen @@ [pushed |-> newEvents]
    /\ UNCHANGED <<options, destroyed, longPollInfo, closes>>

\* fetchEvents: the events request q rejects
FetchFail(q) ==
    /\ q.kind = "fetch"
    /\ LET st0 == Without(q)
           st == RetryPollInfoCall(st0, "fetchFailed")
       IN /\ Apply(st)
          /\ step' = Did("fetchFailed", st0, st, 1)
    /\ UNCHANGED <<options, destroyed, streamPosition, longPollInfo, dedupHash,
                   rateLimiter, reading, flowing, closes, sinceFetch>>

\* retryPollInfo's timer t fires: () => this.getLongPollInfo()
TimerFire(t) ==
    /\ t.rem = 0
    /\ LET st0 == [FeedState EXCEPT !.timers = timers (-) SetToBag({t})]
           st == GetLongPollInfoCall(st0)
       IN /\ Apply(st)
          /\ step' = Did("timerFired", st0, st, 0) @@ [why |-> t.why]
    /\ UNCHANGED <<options, destroyed, streamPosition, longPollInfo, dedupHash,
                   rateLimiter, reading, flowing, closes, sinceFetch>>

ClearTimeoutNone(ts) == ts

\* _destroy: clearTimeout(this._retryTimer) cancels the timer _retryTimer
\* refers to, if it is still pending
ClearTimeout(ts) == [t \in {x \in DOMAIN ts : ~x.handle} |-> ts[t]]

DestroyActsAlways(d) == TRUE

\* destroy: if (!this.destroyed)
DestroyActs(d) == ~d

\* destroy(): marks the stream destroyed, schedules 'close', and _destroy()
\* clears the timer _retryTimer refers to; a second call does nothing
Destroy ==
    /\ IF DestroyActs(destroyed)
       THEN /\ destroyed' = TRUE
            /\ closes' = closes + 1
            /\ timers' = ClearTimeout(timers)
            /\ retryTimer' = "undefined"
       ELSE UNCHANGED <<destroyed, closes, timers, retryTimer>>
    /\ step' = [kind |-> "destroyed", again |-> destroyed,
                posBefore |-> streamPosition, hashBefore |-> dedupHash,
                closesBefore |-> closes,
                cancelled |-> BagCardinality(timers) - BagCardinality(timers')]
    /\ UNCHANGED <<options, streamPosition, longPollInfo, longPollRetries, dedupHash,
                   rateLimiter, pending, reading, flowing, sinceFetch>>

Elapse(r) == [r EXCEPT !.rem = IF @ > 0 THEN @ - 1 ELSE 0]

\* one tick of the clock: every delay in progress gets one tick shorter
FeedTick ==
    /\ rateLimiter' = (IF rateLimiter > 0 THEN rateLimiter - 1 ELSE 0)
    /\ timers' = BagOfAll(Elapse, timers)
    /\ pending' = BagOfAll(Elapse, pending)
    /\ sinceFetch' = (IF sinceFetch < options.fetchInterval THEN sinceFetch + 1
                      ELSE sinceFetch)
    /\ UNCHANGED <<options, destroyed, streamPosition, longPollInfo, longPollRetries,
                   dedupHash, retryTimer, reading, flowing, closes, step>>

\* the responses an event fetch may get, with at most n entries
Responses(n) ==
    {[hasEntries |-> TRUE, entries |-> e, next |-> x] :
         e \in SeqsUpTo(EventIds, n), x \in Positions \cup {0}}
    \cup {[hasEntries |-> FALSE, entries |-> <<>>, next |-> x] : x \in Positions \cup {0}}

\* the session is left alone
SessionUnchanged == UNCHANGED sessVars

NextFeed ==
    \/ Read /\ SessionUnchanged
    \/ (\E q \in BagToSet(pending), info \in Infos : DiscoverSucceed(q, info))
           /\ SessionUnchanged
    \/ (\E q \in BagToSet(pending), a \in BOOLEAN : DiscoverFail(q, a))
           /\ SessionUnchanged
    \/ (\E q \in BagToSet(pending), msg \in {"reconnect", "new_change", "other"} :
            LongPollRespond(q, msg)) /\ SessionUnchanged
    \/ (\E q \in BagToSet(pending) : LongPollFail(q)) /\ SessionUnchanged
    \/ (\E q \in BagToSet(pending) : RateLimiterResolved(q)) /\ SessionUnchanged
    \/ (\E q \in BagToSet(pending), resp \in Responses(MaxEntries) :
            FetchSucceed(q, resp)) /\ SessionUnchanged
    \/ (\E q \in BagToSet(pending) : FetchFail(q)) /\ SessionUnchanged
    \/ (\E t \in BagToSet(timers) : TimerFire(t)) /\ SessionUnchanged
    \/ Destroy /\ SessionUnchanged
    \/ FeedTick /\ SessionUnchanged

\* the stream as constructed, beside a session that is never used
InitFeed == FeedInit /\ SessionIdle

SpecFeed == InitFeed /\ [][NextFeed]_vars

\* the event loop runs a timer callback that is due, and time passes
SpecFeedFair ==
    /\ SpecFeed
    /\ WF_vars(FeedTick /\ SessionUnchanged)
    /\ WF_vars((\E t \in BagToSet(timers) : TimerFire(t)) /\ SessionUnchanged)

(***************************************************************************)
(* EventStream: properties.                                                *)
(***************************************************************************)

\* a fetch response that carries both an entries list and a next cursor
HasEntriesAndCursor(resp) == resp.hasEntries /\ resp.next # 0

NoRepeats(q) == \A i, j \in 1..Len(q) : i # j => q[i] # q[j]

\* C6 (as claimed): of one fetch response, each distinct event id is pushed
\* to the consumer at most once.
C6_EachIdOnce ==
    step.kind = "fetched" => NoRepeats(step.pushed)

\* C7: of a fetch response with entries and cursor, no pushed event had its id
\* among the dedup keys found; every entry whose id was not among them is
\* pushed, in the order of the response; every pushed id is a dedup key
\* after the batch; and when every entry was tracked nothing is pushed and,
\* unless destroyed, the stream issues its next long-poll (or the discovery
\* that precedes it).
C7_DedupAcrossFetches ==
    (step.kind = "fetched" /\ HasEntriesAndCursor(step.resp)) =>
        /\ \A i \in 1..Len(step.pushed) : step.pushed[i] \notin step.hashBefore
        /\ \A e \in Range(step.resp.entries) \ step.hashBefore : e \in Range(step.pushed)
        /\ step.pushed = SelectSeq(step.resp.entries, LAMBDA e : e \in Range(step.pushed))
        /\ Range(step.pushed) \subseteq dedupHash
        /\ Range(step.resp.entries) \subseteq step.hashBefore =>
               /\ step.pushed = <<>>
               /\ ~step.wasDestroyed => step.issued \in {"longpoll", "discover"}

\* C7 witness: a response mixing a tracked and an untracked event pushed
\* only the untracked one
C7_Witness ==
    /\ step.kind = "fetched"
    /\ HasEntriesAndCursor(step.resp)
    /\ Range(step.resp.entries) \cap step.hashBefore # {}
    /\ step.pushed # <<>>
    /\ Len(step.pushed) < Len(step.resp.entries)

\* C8: a fetch response with entries and cursor sets streamPosition to its
\* next_stream_position; every other callback (discovery, long-poll
\* response, failures, timer) leaves streamPosition and the dedup keys as it
\* found them, and so does a fetch response lacking entries or cursor, which
\* emits no error and, unless destroyed, issues the next long-poll (or the
\* discovery that precedes it).
C8_CursorOnlyFromFetch ==
    /\ step.kind = "fetched" =>
           IF HasEntriesAndCursor(step.resp)
           THEN streamPosition = step.resp.next
           ELSE /\ streamPosition = step.posBefore
                /\ dedupHash = step.hashBefore
                /\ step.errors = 0
                /\ step.pushed = <<>>
                /\ ~step.wasDestroyed => step.issued \in {"longpoll", "discover"}
    /\ step.kind \notin {"none", "fetched"} =>
           streamPosition = step.posBefore /\ dedupHash = step.hashBefore
    /\ step.kind = "none" => streamPosition = 0 /\ dedupHash = {}

\* C8 witness: after the cursor had advanced, a response without a next
\* cursor left it alone and the long poll was issued again
C8_Witness ==
    /\ step.kind = "fetched"
    /\ step.resp.hasEntries
    /\ step.resp.entries # <<>>
    /\ step.resp.next = 0
    /\ step.posBefore # 0
    /\ streamPosition = step.posBefore
    /\ step.issued = "longpoll"

\* C9: an events request is issued only when at least fetchInterval ticks
\* have passed since the last event-fetch response.
C9_RateLimit ==
    step.kind = "fetchIssued" => step.since >= options.fetchInterval

\* C9 witness: an events request issued after an earlier fetch had advanced
\* the cursor
C9_Witness ==
    /\ step.kind = "fetchIssued"
    /\ streamPosition # 0
    /\ dedupHash # {}

\* a discovery failed while the stream was not destroyed
DiscoveryFailed == step.kind = "discoverFailed" /\ ~step.wasDestroyed

C10_Safety ==
    DiscoveryFailed =>
        /\ step.errors = 1
        /\ pending = EmptyBag
        /\ step.issued = "none"
        /\ IF step.authExpired
           THEN step.scheduled = 0 /\ timers = EmptyBag
           ELSE /\ step.scheduled = 1
                /\ step.delay = options.retryDelay
                /\ BagCardinality(timers) = 1

\* C10: a discovery failure on a stream not destroyed emits one error; if it
\* is auth-expired no timer is scheduled and no request is in flight until
\* the next callback; otherwise one timer of retryDelay is scheduled and,
\* unless the stream is destroyed, it fires and issues a new discovery.
C10_DiscoveryFailure ==
    /\ []C10_Safety
    /\ (DiscoveryFailed /\ ~step.authExpired)
           ~> (destroyed \/ (/\ step.kind = "timerFired"
                             /\ step.why = "discoverFailed"
                             /\ step.issued = "discover"))

\* C10 witness: the retry timer of a failed discovery fired and issued a
\* new discovery
C10_Witness ==
    /\ step.kind = "timerFired"
    /\ step.why = "discoverFailed"
    /\ step.issued = "discover"
    /\ ~destroyed

\* C11 (as claimed): a callback that runs on a destroyed stream emits no
\* error, pushes no event, and leaves streamPosition, the dedup keys, the
\* long-poll info and the attempt counter as it found them.
C11_InertAfterDestroy ==
    (step.kind \notin {"none", "destroyed"} /\ step.wasDestroyed) =>
        /\ step.errors = 0
        /\ step.kind = "fetched" => step.pushed = <<>>
        /\ streamPosition = step.posBefore
        /\ dedupHash = step.hashBefore
        /\ longPollInfo = step.infoBefore
        /\ longPollRetries = step.retriesBefore

\* C12: at most one retry timer is pending, and it is the one _retryTimer
\* refers to; a destroyed stream has no pending timer, schedules none, and no
\* timer callback runs on it.
C12_OneTimerNoneAfterDestroy ==
    /\ BagCardinality(timers) <= 1
    /\ \A t \in BagToSet(timers) : t.handle /\ retryTimer = "set"
    /\ destroyed => timers = EmptyBag /\ retryTimer = "undefined"
    /\ step.kind = "destroyed" => step.cancelled \in {0, 1}
    /\ step.kind = "timerFired" => ~step.wasDestroyed
    /\ (step.kind \notin {"none", "destroyed"} /\ step.wasDestroyed) =>
           step.scheduled = 0

\* C12 witness: destroy() cancelled the pending retry timer
C12_Witness ==
    /\ step.kind = "destroyed"
    /\ step.cancelled = 1
    /\ timers = EmptyBag

\* C14: a second destroy() call leaves the stream destroyed with no timer
\* pending and schedules no further 'close'; there is at most one 'close'.
C14_DestroyIdempotent ==
    /\ closes <= 1
    /\ destroyed <=> closes = 1
    /\ (step.kind = "destroyed" /\ step.again) =>
           /\ destroyed
           /\ closes = step.closesBefore
           /\ step.cancelled = 0
           /\ timers = EmptyBag
           /\ retryTimer = "undefined"

\* C14 witness: destroy() was called on a destroyed stream
C14_Witness ==
    /\ step.kind = "destroyed"
    /\ step.again
    /\ closes = 1

C15_PruneOnNextFetch ==
    (/\ step.kind = "fetched"
     /\ HasEntriesAndCursor(step.resp)
     /\ Cardinality(step.hashBefore) >= options.deduplicationFilterSize) =>
        dedupHash \subseteq Range(step.resp.entries)

\* C19 (as claimed): the number of dedup keys never exceeds
\* deduplicationFilterSize.
C19_DedupBounded ==
    Cardinality(dedupHash) <= options.deduplicationFilterSize

\* C16: a long-poll response 'reconnect' on a stream not destroyed issues a
\* discovery and nothing else, leaving streamPosition and the dedup keys
\* alone; a discovery that succeeds on a stream not destroyed replaces the
\* long-poll info, and issues one long-poll request, the first counted
\* against the new info, to the new url with the current stream position.
C16_Reconnect ==
    /\ (step.kind = "polled" /\ step.msg = "reconnect" /\ ~step.wasDestroyed) =>
           /\ step.issued = "discover"
           /\ step.errors = 0 /\ step.scheduled = 0
           /\ \A q \in BagToSet(pending) : q.kind = "discover"
           /\ streamPosition = step.posBefore
           /\ dedupHash = step.hashBefore
    /\ (step.kind = "discovered" /\ ~step.wasDestroyed) =>
           /\ longPollInfo = step.info
           /\ longPollRetries = 1
           /\ step.issued = "longpoll"
           /\ \A q \in BagToSet(pending) :
                  q.kind = "longpoll" /\ q.url = step.info.url /\ q.pos = streamPosition
           /\ streamPosition = step.posBefore

\* C16 witness: the discovery issued on 'reconnect' succeeded with other
\* long-poll info, after attempts had been counted against the old one
C16_Witness ==
    /\ step.kind = "discovered"
    /\ step.cause = "reconnect"
    /\ ~step.wasDestroyed
    /\ step.retriesBefore >= 1
    /\ step.infoBefore # NoInfo
    /\ step.info # step.infoBefore
    /\ step.issued = "longpoll"

\* a callback that called doLongPoll() with the long-poll info it found:
\* after an unexpected message, a fetch response lacking entries or cursor,
\* or a fetch response with nothing new
Repolled ==
    /\ step.kind \in {"polled", "fetched"}
    /\ ~step.wasDestroyed
    /\ \/ step.kind = "polled" /\ step.msg = "other"
       \/ step.kind = "fetched" /\ step.pushed = <<>>

\* C18 (as claimed): no more than max_retries long-poll requests are made
\* against one long-poll info.
C18_AtMostMaxRetries ==
    longPollRetries <= longPollInfo.max_retries

\* C18 (amended): no more than max_retries + 1 long-poll requests are made
\* against one long-poll info: doLongPoll re-discovers exactly when more than
\* max_retries requests have been counted against it, and otherwise counts
\* and issues one more; a successful discovery restarts the count.
C18_RetryLimit ==
    /\ longPollRetries <= longPollInfo.max_retries + 1
    /\ Repolled =>
           /\ longPollInfo = step.infoBefore
           /\ IF step.retriesBefore > longPollInfo.max_retries
              THEN step.issued = "discover" /\ longPollRetries = step.retriesBefore
              ELSE step.issued = "longpoll" /\ longPollRetries = step.retriesBefore + 1
    /\ step.kind = "discovered" =>
           IF step.wasDestroyed
           THEN longPollRetries = 0
           ELSE longPollRetries = 1 /\ step.issued = "longpoll"

\* C18 witness: with max_retries + 1 requests counted, a re-poll issued a
\* discovery instead
C18_Witness ==
    /\ Repolled
    /\ step.retriesBefore = longPollInfo.max_retries + 1
    /\ step.retriesBefore >= 2
    /\ step.issued = "discover"

\* C20 (as claimed): a long-poll request or an events request that fails on
\* a stream not destroyed emits one error and schedules one retry timer.
C20_FailuresEmitted ==
    (step.kind \in {"pollFailed", "fetchFailed"} /\ ~step.wasDestroyed) =>
        step.errors = 1 /\ step.scheduled = 1

(***************************************************************************)
(* AppAuthSession: further properties.                                     *)
(***************************************************************************)

C17_Marker ==
    /\ refreshPromise # 0 => refreshPromise \in InFlight
    /\ \A p \in 1..Len(promises) :
           promises[p].state = "rejected" =>
               /\ promises[p].value = 0
               /\ promises[p].error =
                      (IF promises[p].granted = 0 THEN GrantError ELSE StoreError)
    /\ (last.op \in {"get", "readcb"} /\ last.kind = "attached") =>
           IF last.started
           THEN last.seen.ref = 0 /\ last.pid = last.seen.grants + 1
           ELSE last.pid = last.seen.ref /\ last.pid \in last.seen.inflight

C17_GrantRejects ==
    \A p \in 1..Len(promises) :
        (promises[p].state = "granting" /\ promises'[p].state = "rejected") =>
            /\ promises'[p].error = GrantError
            /\ tokenInfo' = tokenInfo
            /\ storeTok' = storeTok
            /\ refreshPromise' = 0

\* C17: the refresh marker refers to a refresh only while that refresh is in
\* flight; a grant that rejects rejects the refresh promise its callers share
\* with the grant's error, clears the marker and leaves the in-memory token
\* (and the store) as they were; and a call that needs a refresh afterwards
\* starts a new grant, none is handed a settled promise.
C17_MarkerCleared ==
    []C17_Marker /\ [][C17_GrantRejects]_vars

\* C17 witness: a grant shared by two callers rejected, and the next call
\* started a new grant
C17_Witness ==
    /\ last.op = "get"
    /\ last.started
    /\ last.pid >= 2
    /\ promises[last.pid - 1].state = "rejected"
    /\ promises[last.pid - 1].error = GrantError
    /\ promises[last.pid - 1].waiters >= 2

C21_Cached ==
    /\ \A p \in 1..Len(promises) :
           (promises[p].state = "rejected" /\ promises[p].granted # 0) =>
               promises[p].error = StoreError /\ promises[p].value = 0
    /\ (/\ last.op = "get"
        /\ PassesCheck(last.seen.tok, last.seen.t)
        /\ \E p \in 1..Len(promises) :
               /\ promises[p].state = "rejected"
               /\ promises[p].granted = last.seen.tok.accessToken) =>
           /\ last.kind = "returned"
           /\ last.val = last.seen.tok.accessToken
           /\ ~last.started
           /\ last.seen.grants = Len(promises)

C21_WriteRejects ==
    \A p \in 1..Len(promises) :
        /\ (promises[p].state = "granting" /\ promises'[p].state = "writing") =>
               /\ tokenInfo' = promises'[p].token
               /\ tokenInfo'.accessToken = promises'[p].granted
               /\ refreshPromise' = refreshPromise
        /\ (promises[p].state = "writing" /\ promises'[p].state = "rejected") =>
               /\ promises'[p].error = StoreError
               /\ tokenInfo' = tokenInfo
               /\ refreshPromise' = 0
               /\ reads' = reads

\* C21: a grant that succeeds with a TokenStore makes the granted token the
\* in-memory token before the store write; when the write then fails, the
\* refresh promise its callers share rejects with the store's error, the
\* in-memory token is left as it is and the marker is cleared; and a
\* getAccessToken call that finds that token cached and passing the validity
\* check returns its access token with no grant and no store read.
C21_WriteFailureKeepsToken ==
    []C21_Cached /\ [][C21_WriteRejects]_vars

\* C21 witness: a token whose store write failed was returned from memory
C21_Witness ==
    /\ last.op = "get"
    /\ last.kind = "returned"
    /\ tokenInfo # NoToken
    /\ refreshPromise = 0
    /\ \E p \in 1..Len(promises) :
           /\ promises[p].state = "rejected"
           /\ promises[p].error = StoreError
           /\ promises[p].waiters >= 1
           /\ promises[p].granted = last.val
           /\ storeTok.accessToken # last.val

====
